---- MODULE Spec2Model ----
(***************************************************************************)
(* Handle registry and context-binding state machine of                    *)
(* anbox/graphics/emugl/Renderer.cpp.                                      *)
(*                                                                         *)
(* An operation whose whole body runs under an AutoLock on m_lock is one   *)
(* step: it is enabled when the lock is free, and it takes and releases    *)
(* the lock within the step.  An operation that keeps the lock across an   *)
(* internal bind, or that runs without the lock (draw on a native window,  *)
(* createClientImage, the lookup in destroyNativeWindow), is several       *)
(* steps, which interleave with the steps of other threads.                *)
(*                                                                         *)
(* Backend (EGL) objects are named by the handle under which the registry  *)
(* stored them; the renderer's own contexts and surfaces are negative      *)
(* numbers.  The backend's current binding is per calling thread, as       *)
(* eglGetCurrentContext / eglMakeCurrent define it.                        *)
(***************************************************************************)
EXTENDS Integers, FiniteSets, Sequences, TLC

\* ---------------------------------------------------------------- bounds
\* HandleType is an unsigned integer; the model keeps its wrap-around with
\* a small modulus: handles are 0..MaxHandle and ++ wraps MaxHandle to 0.
MaxHandle == 2

\* openColorBuffer is offered only while the refcount is below this cap.
MaxRefcount == 2

Threads == {1, 2}

NativeWindowIds == {1}

\* ------------------------------------------------------------- constants
NoThread == 0

EGL_NO_CONTEXT == 0

EGL_NO_SURFACE == 0

\* The renderer's own backend objects (never stored in a table).
m_pbufContext == -1

m_pbufSurface == -2

m_eglContext == -3

windowSurface == -4

HandleModulus == MaxHandle + 1

Handles == 1..MaxHandle

HandleArgs == 0..MaxHandle

VARIABLES
    s_nextHandle,      \* Renderer::s_nextHandle
    m_colorbuffers,    \* handle -> refcount (ColorBufferRef.refcount)
    m_contexts,        \* set of handles (RenderContextMap keys)
    m_windows,         \* handle -> attached color buffer handle (pair.second)
    m_nativeWindows,   \* set of native window ids
    m_contextSet,      \* thread -> RenderThreadInfo::m_contextSet
    m_windowSet,       \* thread -> RenderThreadInfo::m_windowSet
    currContext,       \* thread -> RenderThreadInfo::currContext
    currDrawSurf,      \* thread -> RenderThreadInfo::currDrawSurf
    currReadSurf,      \* thread -> RenderThreadInfo::currReadSurf
    eglCurrent,        \* thread -> [ctx, draw, read] current at the backend
    m_prevContext,     \* snapshot taken by bind_locked / bindWindow_locked
    m_prevReadSurf,
    m_prevDrawSurf,
    lockHolder,        \* m_lock: the thread holding it, or NoThread
    pc,                \* thread -> position in its current operation
    opens,             \* history: handle -> opens not yet matched by a close
    creator,           \* history: handle -> thread that created the live context or surface
    prior,             \* history: thread -> backend binding before its internal bind
    eglCalled,         \* history: the last step called eglMakeCurrent
    last               \* history: the operation step completed last

tableVars == <<s_nextHandle, m_colorbuffers, m_contexts, m_windows, opens>>

ownerVars == <<m_contextSet, m_windowSet, creator>>

recordVars == <<currContext, currDrawSurf, currReadSurf>>

snapVars == <<m_prevContext, m_prevReadSurf, m_prevDrawSurf>>

backendVars == <<eglCurrent, m_prevContext, m_prevReadSurf, m_prevDrawSurf, prior>>

vars == <<s_nextHandle, m_colorbuffers, m_contexts, m_windows, m_nativeWindows,
          m_contextSet, m_windowSet, currContext, currDrawSurf, currReadSurf,
          eglCurrent, m_prevContext, m_prevReadSurf, m_prevDrawSurf,
          lockHolder, pc, opens, creator, prior, eglCalled, last>>

NoBinding == [ctx |-> EGL_NO_CONTEXT, draw |-> EGL_NO_SURFACE, read |-> EGL_NO_SURFACE]

Binding(c, d, r) == [ctx |-> c, draw |-> d, read |-> r]

\* The history of the last completed operation: its name, the calling
\* thread, the exit it took, the value it returned (0 for void) and whether
\* the calling thread held m_lock while it ran.
DoneAt(name, t, exit, r, held) ==
    [op |-> name, t |-> t, exit |-> exit, ret |-> r, held |-> held]

\* An operation that ran under the lock.
Done(name, t, exit, r) == DoneAt(name, t, exit, r, TRUE)

\* ------------------------------------------------------------ map helpers
\* std::map operator[] assignment and erase on a handle-keyed table.
MapPut(m, k, v) == [x \in (DOMAIN m) \cup {k} |-> IF x = k THEN v ELSE m[x]]

MapErase(m, k) == [x \in (DOMAIN m) \ {k} |-> m[x]]

EmptyMap == [x \in {} |-> 0]

\* The creators of the contexts and surfaces that stay live in the tables
\* ctxs and wins.
CreatorsOf(ctxs, wins) ==
    [h \in Handles |-> IF h \in ctxs \cup DOMAIN wins THEN creator[h] ELSE NoThread]

Init ==
    /\ s_nextHandle = 0
    /\ m_colorbuffers = EmptyMap
    /\ m_contexts = {}
    /\ m_windows = EmptyMap
    /\ m_nativeWindows = {}
    /\ m_contextSet = [t \in Threads |-> {}]
    /\ m_windowSet = [t \in Threads |-> {}]
    /\ currContext = [t \in Threads |-> 0]
    /\ currDrawSurf = [t \in Threads |-> 0]
    /\ currReadSurf = [t \in Threads |-> 0]
    /\ eglCurrent = [t \in Threads |-> NoBinding]
    /\ m_prevContext = EGL_NO_CONTEXT
    /\ m_prevReadSurf = EGL_NO_SURFACE
    /\ m_prevDrawSurf = EGL_NO_SURFACE
    /\ lockHolder = NoThread
    /\ pc = [t \in Threads |-> "idle"]
    /\ opens = [h \in Handles |-> 0]
    /\ creator = [h \in Handles |-> NoThread]
    /\ prior = [t \in Threads |-> NoBinding]
    /\ eglCalled = FALSE
    /\ last = Done("init", NoThread, "ok", 0)

\* ------------------------------------------------------------------ lock
\* emugl::Mutex::AutoLock constructor / m_lock.lock() by a thread that is
\* between operations: it proceeds when the lock is free.
Locked(t) ==
    /\ pc[t] = "idle"
    /\ lockHolder = NoThread

\* m_lock.unlock() by thread t.  Unlocking a mutex the caller does not hold
\* is undefined: the build either leaves the lock alone or releases it.
UnlockOutcomes(t) == IF lockHolder = t THEN {NoThread} ELSE {lockHolder, NoThread}

\* The end of a body that took the lock in the same step: the AutoLock
\* destructor releases it and the thread is between operations again.
Return(t) == UNCHANGED <<lockHolder, pc>>

\* The end of a body that has held the lock since an earlier step.
ReturnHeld(t) ==
    /\ lockHolder' \in UnlockOutcomes(t)
    /\ pc' = [pc EXCEPT ![t] = "idle"]

\* ------------------------------------------------------------- genHandle
\* do { id = ++s_nextHandle; } while (id == 0 || id is a context key ||
\* id is a window-surface key).  m_colorbuffers is not consulted.
\* The loop revisits the same counter values after HandleModulus rounds, so
\* running out of fuel means that it never ends; 0 stands for that outcome.
\* A loop that rejects only the value 0 and looks nothing up in the tables.
genHandleLoopSkipsZeroOnly(counter, fuel) ==
    LET id == (counter + 1) % HandleModulus IN
    IF id = 0 THEN (id + 1) % HandleModulus ELSE id

RECURSIVE genHandleLoop(_, _)
genHandleLoop(counter, fuel) ==
    LET id == (counter + 1) % HandleModulus IN
    IF fuel = 0 THEN 0
    ELSE IF id = 0 \/ id \in m_contexts \/ id \in DOMAIN m_windows
         THEN genHandleLoop(id, fuel - 1)
         ELSE id

genHandle == genHandleLoop(s_nextHandle, HandleModulus)

\* A create operation whose genHandle() call never returns: the thread
\* stays in the loop with the lock held.
Spin(t) ==
    /\ pc' = [pc EXCEPT ![t] = "genHandle"]
    /\ lockHolder' = t
    /\ UNCHANGED <<tableVars, ownerVars, last>>

\* ------------------------------------------------------- create operations
\* created: ColorBuffer::create returned a non-null object.
createColorBuffer(t, created) ==
    /\ Locked(t)
    /\ IF ~created
       THEN /\ last' = Done("createColorBuffer", t, "fail", 0)
            /\ Return(t)
            /\ UNCHANGED <<tableVars, ownerVars>>
       ELSE IF genHandle = 0
       THEN Spin(t)
       ELSE /\ s_nextHandle' = genHandle
            /\ m_colorbuffers' = MapPut(m_colorbuffers, genHandle, 1)
            /\ opens' = [opens EXCEPT ![genHandle] = 0]
            /\ last' = Done("createColorBuffer", t, "ok", genHandle)
            /\ Return(t)
            /\ UNCHANGED <<m_contexts, m_windows, ownerVars>>
    /\ UNCHANGED <<recordVars, backendVars, m_nativeWindows>>
    /\ eglCalled' = FALSE

\* A createRenderContext that takes its handle from genHandle before it
\* knows that the context can be created.
createRenderContextAllocatesFirst(t, config, p_share, created) ==
    /\ Locked(t)
    /\ IF genHandle = 0
       THEN Spin(t)
       ELSE /\ s_nextHandle' = genHandle
            /\ IF ~config \/ (p_share # 0 /\ p_share \notin m_contexts) \/ ~created
               THEN /\ last' = Done("createRenderContext", t, "fail", 0)
                    /\ UNCHANGED <<m_contexts, m_contextSet, creator>>
               ELSE /\ m_contexts' = m_contexts \cup {genHandle}
                    /\ m_contextSet' = [m_contextSet EXCEPT ![t] = @ \cup {genHandle}]
                    /\ creator' = [creator EXCEPT ![genHandle] = t]
                    /\ last' = Done("createRenderContext", t, "ok", genHandle)
            /\ Return(t)
            /\ UNCHANGED <<m_colorbuffers, m_windows, opens, m_windowSet>>
    /\ UNCHANGED <<recordVars, backendVars, m_nativeWindows>>
    /\ eglCalled' = FALSE

\* config: getConfigs()->get(p_config) found a configuration;
\* created: RenderContext::create returned a non-null object.
createRenderContext(t, config, p_share, created) ==
    /\ Locked(t)
    /\ IF ~config \/ (p_share # 0 /\ p_share \notin m_contexts) \/ ~created
       THEN /\ last' = Done("createRenderContext", t, "fail", 0)
            /\ Return(t)
            /\ UNCHANGED <<tableVars, ownerVars>>
       ELSE IF genHandle = 0
       THEN Spin(t)
       ELSE /\ s_nextHandle' = genHandle
            /\ m_contexts' = m_contexts \cup {genHandle}
            /\ m_contextSet' = [m_contextSet EXCEPT ![t] = @ \cup {genHandle}]
            /\ creator' = [creator EXCEPT ![genHandle] = t]
            /\ last' = Done("createRenderContext", t, "ok", genHandle)
            /\ Return(t)
            /\ UNCHANGED <<m_colorbuffers, m_windows, opens, m_windowSet>>
    /\ UNCHANGED <<recordVars, backendVars, m_nativeWindows>>
    /\ eglCalled' = FALSE

\* A createWindowSurface that registers the new handle in the surface
\* ownership set of every thread.
createWindowSurfaceOwnedByAll(t, config, created) ==
    /\ Locked(t)
    /\ IF ~config \/ ~created
       THEN /\ last' = Done("createWindowSurface", t, "fail", 0)
            /\ Return(t)
            /\ UNCHANGED <<tableVars, ownerVars>>
       ELSE IF genHandle = 0
       THEN Spin(t)
       ELSE /\ s_nextHandle' = genHandle
            /\ m_windows' = MapPut(m_windows, genHandle, 0)
            /\ m_windowSet' = [u \in Threads |-> m_windowSet[u] \cup {genHandle}]
            /\ creator' = [creator EXCEPT ![genHandle] = t]
            /\ last' = Done("createWindowSurface", t, "ok", genHandle)
            /\ Return(t)
            /\ UNCHANGED <<m_colorbuffers, m_contexts, opens, m_contextSet>>
    /\ UNCHANGED <<recordVars, backendVars, m_nativeWindows>>
    /\ eglCalled' = FALSE

createWindowSurface(t, config, created) ==
    /\ Locked(t)
    /\ IF ~config \/ ~created
       THEN /\ last' = Done("createWindowSurface", t, "fail", 0)
            /\ Return(t)
            /\ UNCHANGED <<tableVars, ownerVars>>
       ELSE IF genHandle = 0
       THEN Spin(t)
       ELSE /\ s_nextHandle' = genHandle
            /\ m_windows' = MapPut(m_windows, genHandle, 0)
            /\ m_windowSet' = [m_windowSet EXCEPT ![t] = @ \cup {genHandle}]
            /\ creator' = [creator EXCEPT ![genHandle] = t]
            /\ last' = Done("createWindowSurface", t, "ok", genHandle)
            /\ Return(t)
            /\ UNCHANGED <<m_colorbuffers, m_contexts, opens, m_contextSet>>
    /\ UNCHANGED <<recordVars, backendVars, m_nativeWindows>>
    /\ eglCalled' = FALSE

\* -------------------------------------------------------------------- drain
\* A drainRenderContext that erases the thread's contexts from the table
\* but forgets to clear the thread's set.
drainRenderContextKeepsSet(t) ==
    /\ Locked(t)
    /\ IF m_contextSet[t] = {}
       THEN UNCHANGED <<m_contexts, m_contextSet, creator>>
       ELSE /\ m_contexts' = m_contexts \ m_contextSet[t]
            /\ creator' = CreatorsOf(m_contexts \ m_contextSet[t], m_windows)
            /\ UNCHANGED m_contextSet
    /\ last' = Done("drainRenderContext", t, "ok", 0)
    /\ Return(t)
    /\ UNCHANGED <<s_nextHandle, m_colorbuffers, m_windows, opens, m_windowSet,
                   recordVars, backendVars, m_nativeWindows>>
    /\ eglCalled' = FALSE

drainRenderContext(t) ==
    /\ Locked(t)
    /\ IF m_contextSet[t] = {}
       THEN UNCHANGED <<m_contexts, m_contextSet, creator>>
       ELSE /\ m_contexts' = m_contexts \ m_contextSet[t]
            /\ m_contextSet' = [m_contextSet EXCEPT ![t] = {}]
            /\ creator' = CreatorsOf(m_contexts \ m_contextSet[t], m_windows)
    /\ last' = Done("drainRenderContext", t, "ok", 0)
    /\ Return(t)
    /\ UNCHANGED <<s_nextHandle, m_colorbuffers, m_windows, opens, m_windowSet,
                   recordVars, backendVars, m_nativeWindows>>
    /\ eglCalled' = FALSE

\* A decrement that erases the entry one reference too early.
DecRefErasesEarly(cbs, cb) ==
    IF cbs[cb] - 1 <= 1 THEN MapErase(cbs, cb)
    ELSE [cbs EXCEPT ![cb] = @ - 1]

\* A decrement that leaves the entry in the table when it reaches zero.
DecRefKeepsEntry(cbs, cb) == [cbs EXCEPT ![cb] = @ - 1]

\* if (--refcount == 0) erase: the color-buffer table after one decrement
\* of the entry at cb (which is present).
DecRef(cbs, cb) ==
    IF cbs[cb] - 1 = 0 THEN MapErase(cbs, cb)
    ELSE [cbs EXCEPT ![cb] = @ - 1]

\* One round of drainWindowSurface's loop, for windowHandle, on the pair
\* st = [w |-> window table, c |-> color-buffer table].
DrainOne(st, windowHandle) ==
    IF windowHandle \in DOMAIN st.w
    THEN LET oldColorBufferHandle == st.w[windowHandle] IN
         [w |-> MapErase(st.w, windowHandle),
          c |-> IF oldColorBufferHandle # 0 /\ oldColorBufferHandle \in DOMAIN st.c
                THEN DecRef(st.c, oldColorBufferHandle)
                ELSE st.c]
    ELSE st

\* The loop over the std::set, in ascending order of the handles.
RECURSIVE DrainLoop(_, _)
DrainLoop(st, todo) ==
    IF todo = {} THEN st
    ELSE LET h == CHOOSE x \in todo : \A y \in todo : x <= y IN
         DrainLoop(DrainOne(st, h), todo \ {h})

drainWindowSurface(t) ==
    /\ Locked(t)
    /\ IF m_windowSet[t] = {}
       THEN UNCHANGED <<m_windows, m_colorbuffers, opens, m_windowSet, creator>>
       ELSE LET st == DrainLoop([w |-> m_windows, c |-> m_colorbuffers], m_windowSet[t]) IN
            /\ m_windows' = st.w
            /\ creator' = CreatorsOf(m_contexts, st.w)
            /\ m_colorbuffers' = st.c
            /\ opens' = [h \in Handles |-> IF h \in DOMAIN st.c THEN opens[h] ELSE 0]
            /\ m_windowSet' = [m_windowSet EXCEPT ![t] = {}]
    /\ last' = Done("drainWindowSurface", t, "ok", 0)
    /\ Return(t)
    /\ UNCHANGED <<s_nextHandle, m_contexts, m_contextSet,
                   recordVars, backendVars, m_nativeWindows>>
    /\ eglCalled' = FALSE

\* ------------------------------------------------------------------ destroy
\* A DestroyRenderContext that clears the record of every thread whose
\* current context is the destroyed one.
DestroyRenderContextClearsRecords(t, p_context) ==
    /\ Locked(t)
    /\ m_contexts' = m_contexts \ {p_context}
    /\ m_contextSet' = [m_contextSet EXCEPT ![t] = @ \ {p_context}]
    /\ creator' = CreatorsOf(m_contexts \ {p_context}, m_windows)
    /\ currContext' = [u \in Threads |->
                         IF currContext[u] = p_context THEN 0 ELSE currContext[u]]
    /\ last' = Done("DestroyRenderContext", t, "ok", 0)
    /\ Return(t)
    /\ UNCHANGED <<s_nextHandle, m_colorbuffers, m_windows, opens, m_windowSet,
                   currDrawSurf, currReadSurf, backendVars, m_nativeWindows>>
    /\ eglCalled' = FALSE

DestroyRenderContext(t, p_context) ==
    /\ Locked(t)
    /\ m_contexts' = m_contexts \ {p_context}
    /\ m_contextSet' = [m_contextSet EXCEPT ![t] = @ \ {p_context}]
    /\ creator' = CreatorsOf(m_contexts \ {p_context}, m_windows)
    /\ last' = Done("DestroyRenderContext", t, "ok", 0)
    /\ Return(t)
    /\ UNCHANGED <<s_nextHandle, m_colorbuffers, m_windows, opens, m_windowSet,
                   recordVars, backendVars, m_nativeWindows>>
    /\ eglCalled' = FALSE

DestroyWindowSurface(t, p_surface) ==
    /\ Locked(t)
    /\ IF p_surface \in DOMAIN m_windows
       THEN /\ m_windows' = MapErase(m_windows, p_surface)
            /\ m_windowSet' = [m_windowSet EXCEPT ![t] = @ \ {p_surface}]
            /\ creator' = CreatorsOf(m_contexts, MapErase(m_windows, p_surface))
       ELSE UNCHANGED <<m_windows, m_windowSet, creator>>
    /\ last' = Done("DestroyWindowSurface", t, "ok", 0)
    /\ Return(t)
    /\ UNCHANGED <<s_nextHandle, m_colorbuffers, m_contexts, opens, m_contextSet,
                   recordVars, backendVars, m_nativeWindows>>
    /\ eglCalled' = FALSE

\* ------------------------------------------------------------- open / close
openColorBuffer(t, p_colorbuffer) ==
    /\ Locked(t)
    /\ IF p_colorbuffer \notin DOMAIN m_colorbuffers
       THEN /\ last' = Done("openColorBuffer", t, "fail", -1)
            /\ UNCHANGED <<m_colorbuffers, opens>>
       ELSE /\ m_colorbuffers[p_colorbuffer] < MaxRefcount
            /\ opens[p_colorbuffer] < MaxRefcount
            /\ m_colorbuffers' = [m_colorbuffers EXCEPT ![p_colorbuffer] = @ + 1]
            /\ opens' = [opens EXCEPT ![p_colorbuffer] = @ + 1]
            /\ last' = Done("openColorBuffer", t, "ok", 0)
    /\ Return(t)
    /\ UNCHANGED <<s_nextHandle, m_contexts, m_windows, ownerVars,
                   recordVars, backendVars, m_nativeWindows>>
    /\ eglCalled' = FALSE

\* A closeColorBuffer that reaches the entry with operator[], which inserts
\* a zero entry for a handle the table does not hold.
closeColorBufferInsertsEntry(t, p_colorbuffer) ==
    /\ Locked(t)
    /\ IF p_colorbuffer \notin DOMAIN m_colorbuffers
       THEN /\ last' = Done("closeColorBuffer", t, "unknown handle", 0)
            /\ m_colorbuffers' = MapPut(m_colorbuffers, p_colorbuffer, 0)
            /\ UNCHANGED opens
       ELSE /\ m_colorbuffers' = DecRef(m_colorbuffers, p_colorbuffer)
            /\ opens' = [opens EXCEPT ![p_colorbuffer] =
                            IF m_colorbuffers[p_colorbuffer] - 1 = 0 \/ @ = 0
                            THEN 0 ELSE @ - 1]
            /\ last' = Done("closeColorBuffer", t, "ok", 0)
    /\ Return(t)
    /\ UNCHANGED <<s_nextHandle, m_contexts, m_windows, ownerVars,
                   recordVars, backendVars, m_nativeWindows>>
    /\ eglCalled' = FALSE

closeColorBuffer(t, p_colorbuffer) ==
    /\ Locked(t)
    /\ IF p_colorbuffer \notin DOMAIN m_colorbuffers
       THEN /\ last' = Done("closeColorBuffer", t, "unknown handle", 0)
            /\ UNCHANGED <<m_colorbuffers, opens>>
       ELSE /\ m_colorbuffers' = DecRef(m_colorbuffers, p_colorbuffer)
            /\ opens' = [opens EXCEPT ![p_colorbuffer] =
                            IF m_colorbuffers[p_colorbuffer] - 1 = 0 \/ @ = 0
                            THEN 0 ELSE @ - 1]
            /\ last' = Done("closeColorBuffer", t, "ok", 0)
    /\ Return(t)
    /\ UNCHANGED <<s_nextHandle, m_contexts, m_windows, ownerVars,
                   recordVars, backendVars, m_nativeWindows>>
    /\ eglCalled' = FALSE

\* ------------------------------------------------------------------- attach
\* An attach that releases the color buffer the surface had before.
setWindowSurfaceColorBufferReleasesPrevious(t, p_surface, p_colorbuffer) ==
    /\ Locked(t)
    /\ IF p_surface \notin DOMAIN m_windows \/ p_colorbuffer \notin DOMAIN m_colorbuffers
       THEN /\ last' = Done("setWindowSurfaceColorBuffer", t, "fail", 0)
            /\ UNCHANGED <<m_windows, m_colorbuffers>>
       ELSE /\ m_windows' = [m_windows EXCEPT ![p_surface] = p_colorbuffer]
            /\ m_colorbuffers' =
                  IF m_windows[p_surface] # 0 /\ m_windows[p_surface] \in DOMAIN m_colorbuffers
                  THEN DecRef(m_colorbuffers, m_windows[p_surface])
                  ELSE m_colorbuffers
            /\ last' = Done("setWindowSurfaceColorBuffer", t, "ok", 1)
    /\ Return(t)
    /\ UNCHANGED <<s_nextHandle, m_contexts, opens, ownerVars,
                   recordVars, backendVars, m_nativeWindows>>
    /\ eglCalled' = FALSE

setWindowSurfaceColorBuffer(t, p_surface, p_colorbuffer) ==
    /\ Locked(t)
    /\ IF p_surface \notin DOMAIN m_windows \/ p_colorbuffer \notin DOMAIN m_colorbuffers
       THEN /\ last' = Done("setWindowSurfaceColorBuffer", t, "fail", 0)
            /\ UNCHANGED m_windows
       ELSE /\ m_windows' = [m_windows EXCEPT ![p_surface] = p_colorbuffer]
            /\ last' = Done("setWindowSurfaceColorBuffer", t, "ok", 1)
    /\ Return(t)
    /\ UNCHANGED <<s_nextHandle, m_colorbuffers, m_contexts, opens, ownerVars,
                   recordVars, backendVars, m_nativeWindows>>
    /\ eglCalled' = FALSE

\* ------------------------------------------------------------ the backend
\* s_egl.eglMakeCurrent(display, draw, read, ctx) called by thread t, with
\* result ok.  The backend refuses (EGL_BAD_ACCESS) a context or a surface
\* that is current on another thread; it may refuse for other reasons too.
\* A failed call leaves the thread's current binding as it was.
MayMakeCurrent(t, d, r, c) ==
    \A u \in Threads \ {t} :
        /\ c # EGL_NO_CONTEXT => eglCurrent[u].ctx # c
        /\ d # EGL_NO_SURFACE => d \notin {eglCurrent[u].draw, eglCurrent[u].read}
        /\ r # EGL_NO_SURFACE => r \notin {eglCurrent[u].draw, eglCurrent[u].read}

eglMakeCurrent(t, d, r, c, ok) ==
    /\ ok => MayMakeCurrent(t, d, r, c)
    /\ eglCurrent' = IF ok THEN [eglCurrent EXCEPT ![t] = Binding(c, d, r)]
                     ELSE eglCurrent
    /\ eglCalled' = TRUE

\* --------------------------------------------------------------- bindContext
IsBind(p_context, p_drawSurface, p_readSurface) ==
    p_context # 0 \/ p_drawSurface # 0 \/ p_readSurface # 0

\* The three lookups of bindContext all find their entry.
Resolves(p_context, p_drawSurface, p_readSurface) ==
    /\ p_context \in m_contexts
    /\ p_drawSurface \in DOMAIN m_windows
    /\ p_readSurface # p_drawSurface => p_readSurface \in DOMAIN m_windows

\* A bindContext that does not look the read surface up.
bindContextWithoutReadLookup(t, p_context, p_drawSurface, p_readSurface, ok) ==
    LET isBind == IsBind(p_context, p_drawSurface, p_readSurface)
        ctx  == IF isBind THEN p_context ELSE 0
        draw == IF isBind THEN p_drawSurface ELSE 0
        read == IF isBind THEN p_readSurface ELSE 0
    IN
    /\ Locked(t)
    /\ IF isBind /\ ~(p_context \in m_contexts /\ p_drawSurface \in DOMAIN m_windows)
       THEN /\ last' = Done("bindContext", t, "bad handle", 0)
            /\ UNCHANGED <<eglCurrent, recordVars>>
            /\ eglCalled' = FALSE
       ELSE /\ eglMakeCurrent(t, draw, read, ctx, ok)
            /\ IF ~ok
               THEN /\ last' = Done("bindContext", t, "eglMakeCurrent failed", 0)
                    /\ UNCHANGED recordVars
               ELSE /\ currContext' = [currContext EXCEPT ![t] = ctx]
                    /\ currDrawSurf' = [currDrawSurf EXCEPT ![t] = draw]
                    /\ currReadSurf' = [currReadSurf EXCEPT ![t] = read]
                    /\ last' = Done("bindContext", t, "ok", 1)
    /\ Return(t)
    /\ UNCHANGED <<tableVars, ownerVars, snapVars, prior, m_nativeWindows>>

\* A bindContext that updates the thread's record before it knows the
\* result of eglMakeCurrent.
bindContextRecordsFirst(t, p_context, p_drawSurface, p_readSurface, ok) ==
    LET isBind == IsBind(p_context, p_drawSurface, p_readSurface)
        ctx  == IF isBind THEN p_context ELSE 0
        draw == IF isBind THEN p_drawSurface ELSE 0
        read == IF isBind THEN p_readSurface ELSE 0
    IN
    /\ Locked(t)
    /\ IF isBind /\ ~Resolves(p_context, p_drawSurface, p_readSurface)
       THEN /\ last' = Done("bindContext", t, "bad handle", 0)
            /\ UNCHANGED <<eglCurrent, recordVars>>
            /\ eglCalled' = FALSE
       ELSE /\ eglMakeCurrent(t, draw, read, ctx, ok)
            /\ currContext' = [currContext EXCEPT ![t] = ctx]
            /\ currDrawSurf' = [currDrawSurf EXCEPT ![t] = draw]
            /\ currReadSurf' = [currReadSurf EXCEPT ![t] = read]
            /\ last' = IF ok THEN Done("bindContext", t, "ok", 1)
                       ELSE Done("bindContext", t, "eglMakeCurrent failed", 0)
    /\ Return(t)
    /\ UNCHANGED <<tableVars, ownerVars, snapVars, prior, m_nativeWindows>>

\* A bindContext that looks its handles up even when all three are 0.
bindContextAlwaysLooksUp(t, p_context, p_drawSurface, p_readSurface, ok) ==
    /\ Locked(t)
    /\ IF ~Resolves(p_context, p_drawSurface, p_readSurface)
       THEN /\ last' = Done("bindContext", t, "bad handle", 0)
            /\ UNCHANGED <<eglCurrent, recordVars>>
            /\ eglCalled' = FALSE
       ELSE /\ eglMakeCurrent(t, p_drawSurface, p_readSurface, p_context, ok)
            /\ IF ~ok
               THEN /\ last' = Done("bindContext", t, "eglMakeCurrent failed", 0)
                    /\ UNCHANGED recordVars
               ELSE /\ currContext' = [currContext EXCEPT ![t] = p_context]
                    /\ currDrawSurf' = [currDrawSurf EXCEPT ![t] = p_drawSurface]
                    /\ currReadSurf' = [currReadSurf EXCEPT ![t] = p_readSurface]
                    /\ last' = Done("bindContext", t, "ok", 1)
    /\ Return(t)
    /\ UNCHANGED <<tableVars, ownerVars, snapVars, prior, m_nativeWindows>>

\* A bindContext on a backend with one binding for all threads: making a
\* binding current on the calling thread takes the binding of every other
\* thread away.
bindContextSharedSlot(t, p_context, p_drawSurface, p_readSurface, ok) ==
    LET isBind == IsBind(p_context, p_drawSurface, p_readSurface)
        ctx  == IF isBind THEN p_context ELSE 0
        draw == IF isBind THEN p_drawSurface ELSE 0
        read == IF isBind THEN p_readSurface ELSE 0
    IN
    /\ Locked(t)
    /\ IF isBind /\ ~Resolves(p_context, p_drawSurface, p_readSurface)
       THEN /\ last' = Done("bindContext", t, "bad handle", 0)
            /\ UNCHANGED <<eglCurrent, recordVars>>
            /\ eglCalled' = FALSE
       ELSE /\ eglCalled' = TRUE
            /\ IF ~ok
               THEN /\ last' = Done("bindContext", t, "eglMakeCurrent failed", 0)
                    /\ UNCHANGED <<eglCurrent, recordVars>>
               ELSE /\ eglCurrent' = [u \in Threads |->
                                        IF u = t THEN Binding(ctx, draw, read)
                                        ELSE NoBinding]
                    /\ currContext' = [currContext EXCEPT ![t] = ctx]
                    /\ currDrawSurf' = [currDrawSurf EXCEPT ![t] = draw]
                    /\ currReadSurf' = [currReadSurf EXCEPT ![t] = read]
                    /\ last' = Done("bindContext", t, "ok", 1)
    /\ Return(t)
    /\ UNCHANGED <<tableVars, ownerVars, snapVars, prior, m_nativeWindows>>

bindContext(t, p_context, p_drawSurface, p_readSurface, ok) ==
    LET isBind == IsBind(p_context, p_drawSurface, p_readSurface)
        ctx  == IF isBind THEN p_context ELSE 0
        draw == IF isBind THEN p_drawSurface ELSE 0
        read == IF isBind THEN p_readSurface ELSE 0
    IN
    /\ Locked(t)
    /\ IF isBind /\ ~Resolves(p_context, p_drawSurface, p_readSurface)
       THEN /\ last' = Done("bindContext", t, "bad handle", 0)
            /\ UNCHANGED <<eglCurrent, recordVars>>
            /\ eglCalled' = FALSE
       ELSE /\ eglMakeCurrent(t, draw, read, ctx, ok)
            /\ IF ~ok
               THEN /\ last' = Done("bindContext", t, "eglMakeCurrent failed", 0)
                    /\ UNCHANGED recordVars
               ELSE /\ currContext' = [currContext EXCEPT ![t] = ctx]
                    /\ currDrawSurf' = [currDrawSurf EXCEPT ![t] = draw]
                    /\ currReadSurf' = [currReadSurf EXCEPT ![t] = read]
                    /\ last' = Done("bindContext", t, "ok", 1)
    /\ Return(t)
    /\ UNCHANGED <<tableVars, ownerVars, snapVars, prior, m_nativeWindows>>

\* ------------------------------------------------------------ internal binds
\* The effect of bind_locked() called by thread t on the backend binding
\* and on the snapshot; ok is the result of its eglMakeCurrent call.
bind_locked(t, ok) ==
    /\ eglMakeCurrent(t, m_pbufSurface, m_pbufSurface, m_pbufContext, ok)
    /\ IF ok
       THEN /\ m_prevContext' = eglCurrent[t].ctx
            /\ m_prevReadSurf' = eglCurrent[t].read
            /\ m_prevDrawSurf' = eglCurrent[t].draw
       ELSE UNCHANGED snapVars

bindWindow_locked(t, ok) ==
    /\ eglMakeCurrent(t, windowSurface, windowSurface, m_eglContext, ok)
    /\ IF ok
       THEN /\ m_prevContext' = eglCurrent[t].ctx
            /\ m_prevReadSurf' = eglCurrent[t].read
            /\ m_prevDrawSurf' = eglCurrent[t].draw
       ELSE UNCHANGED snapVars

unbind_locked(t, ok) ==
    /\ eglMakeCurrent(t, m_prevDrawSurf, m_prevReadSurf, m_prevContext, ok)
    /\ IF ok
       THEN /\ m_prevContext' = EGL_NO_CONTEXT
            /\ m_prevReadSurf' = EGL_NO_SURFACE
            /\ m_prevDrawSurf' = EGL_NO_SURFACE
       ELSE UNCHANGED snapVars

\* The binding unbind_locked() asks the backend to make current: the
\* stored snapshot, whatever it holds.
UnbindTarget == Binding(m_prevContext, m_prevDrawSurf, m_prevReadSurf)

\* ColorBufferHelper, through which a ColorBuffer reaches the renderer.
setupContext(t, ok) == bind_locked(t, ok)

teardownContext(t, ok) == unbind_locked(t, ok)

\* readColorBuffer: the lookup, then cb->readPixels, which brackets its GL
\* calls with the helper's setupContext / teardownContext.
readColorBuffer_begin(t, p_colorbuffer, ok) ==
    /\ Locked(t)
    /\ IF p_colorbuffer \notin DOMAIN m_colorbuffers
       THEN /\ UNCHANGED <<eglCurrent, snapVars, prior>>
            /\ eglCalled' = FALSE
            /\ last' = Done("readColorBuffer", t, "bad handle", 0)
            /\ Return(t)
       ELSE /\ setupContext(t, ok)
            /\ IF ok
               THEN /\ prior' = [prior EXCEPT ![t] = eglCurrent[t]]
                    /\ pc' = [pc EXCEPT ![t] = "readColorBuffer"]
                    /\ lockHolder' = t
                    /\ UNCHANGED last
               ELSE /\ last' = Done("readColorBuffer", t, "setupContext failed", 0)
                    /\ Return(t)
                    /\ UNCHANGED prior
    /\ UNCHANGED <<tableVars, ownerVars, recordVars, m_nativeWindows>>

readColorBuffer_end(t, ok) ==
    /\ pc[t] = "readColorBuffer"
    /\ teardownContext(t, ok)
    /\ prior' = [prior EXCEPT ![t] = NoBinding]
    /\ last' = DoneAt("readColorBuffer", t, "ok", 0, lockHolder = t)
    /\ ReturnHeld(t)
    /\ UNCHANGED <<tableVars, ownerVars, recordVars, m_nativeWindows>>

\* ------------------------------------------------------------ native windows
\* createNativeWindow up to and including bindWindow_locked.
\* surface: eglCreateWindowSurface returned a surface.
createNativeWindow_begin(t, native_window, surface, ok) ==
    /\ Locked(t)
    /\ IF ~surface
       THEN /\ UNCHANGED <<eglCurrent, snapVars, prior>>
            /\ eglCalled' = FALSE
            /\ last' = Done("createNativeWindow", t, "no surface", 0)
            /\ Return(t)
       ELSE /\ bindWindow_locked(t, ok)
            /\ IF ok
               THEN /\ prior' = [prior EXCEPT ![t] = eglCurrent[t]]
                    /\ pc' = [pc EXCEPT ![t] = "createNativeWindow"]
                    /\ lockHolder' = t
                    /\ UNCHANGED last
               ELSE /\ last' = Done("createNativeWindow", t, "bindWindow_locked failed", 0)
                    /\ Return(t)
                    /\ UNCHANGED prior
    /\ UNCHANGED <<tableVars, ownerVars, recordVars, m_nativeWindows>>

\* glClear, eglSwapBuffers, unbind_locked, the insertion and the unlock.
createNativeWindow_end(t, native_window, ok) ==
    /\ pc[t] = "createNativeWindow"
    /\ unbind_locked(t, ok)
    /\ m_nativeWindows' = m_nativeWindows \cup {native_window}
    /\ prior' = [prior EXCEPT ![t] = NoBinding]
    /\ last' = DoneAt("createNativeWindow", t, "ok", 1, lockHolder = t)
    /\ ReturnHeld(t)
    /\ UNCHANGED <<tableVars, ownerVars, recordVars>>

\* destroyNativeWindow: the lookup in m_nativeWindows, before the lock.
destroyNativeWindow_find(t, native_window) ==
    /\ pc[t] = "idle"
    /\ IF native_window \notin m_nativeWindows
       THEN /\ last' = DoneAt("destroyNativeWindow", t, "not found", 0, lockHolder = t)
            /\ UNCHANGED pc
       ELSE /\ pc' = [pc EXCEPT ![t] = "destroyNativeWindow_lock"]
            /\ UNCHANGED last
    /\ UNCHANGED <<tableVars, ownerVars, recordVars, backendVars, m_nativeWindows, lockHolder>>
    /\ eglCalled' = FALSE

\* m_lock.lock(), eglMakeCurrent(nothing), the destruction, the erase and
\* the unlock.
destroyNativeWindow_body(t, native_window, ok) ==
    /\ pc[t] = "destroyNativeWindow_lock"
    /\ lockHolder = NoThread
    /\ eglMakeCurrent(t, EGL_NO_SURFACE, EGL_NO_SURFACE, EGL_NO_CONTEXT, ok)
    /\ m_nativeWindows' = m_nativeWindows \ {native_window}
    /\ last' = Done("destroyNativeWindow", t, "ok", 0)
    /\ pc' = [pc EXCEPT ![t] = "idle"]
    /\ UNCHANGED lockHolder
    /\ UNCHANGED <<tableVars, ownerVars, recordVars, snapVars, prior>>

\* ----------------------------------------------------- draw(native window)
\* The lookup and bindWindow_locked; m_lock is not taken.  When the bind
\* fails the function calls m_lock.unlock() and returns.
draw_begin(t, native_window, ok) ==
    /\ pc[t] = "idle"
    /\ IF native_window \notin m_nativeWindows
       THEN /\ last' = DoneAt("draw", t, "not found", 0, lockHolder = t)
            /\ UNCHANGED <<eglCurrent, snapVars, prior, pc, lockHolder>>
            /\ eglCalled' = FALSE
       ELSE /\ bindWindow_locked(t, ok)
            /\ IF ok
               THEN /\ prior' = [prior EXCEPT ![t] = eglCurrent[t]]
                    /\ pc' = [pc EXCEPT ![t] = "draw"]
                    /\ UNCHANGED <<lockHolder, last>>
               ELSE /\ lockHolder' \in UnlockOutcomes(t)
                    /\ last' = DoneAt("draw", t, "bindWindow_locked failed", 0, lockHolder = t)
                    /\ UNCHANGED <<prior, pc>>
    /\ UNCHANGED <<tableVars, ownerVars, recordVars, m_nativeWindows>>

\* The rendering, eglSwapBuffers and unbind_locked, still without the lock.
draw_end(t, ok) ==
    /\ pc[t] = "draw"
    /\ unbind_locked(t, ok)
    /\ prior' = [prior EXCEPT ![t] = NoBinding]
    /\ pc' = [pc EXCEPT ![t] = "draw_lock"]
    /\ last' = DoneAt("draw", t, "unbind_locked", 0, lockHolder = t)
    /\ UNCHANGED <<tableVars, ownerVars, recordVars, m_nativeWindows, lockHolder>>

\* m_lock.lock(); m_lock.unlock(); return false.
draw_lock(t) ==
    /\ pc[t] = "draw_lock"
    /\ lockHolder = NoThread
    /\ pc' = [pc EXCEPT ![t] = "idle"]
    /\ last' = Done("draw", t, "ok", 0)
    /\ UNCHANGED <<tableVars, ownerVars, recordVars, backendVars, m_nativeWindows, lockHolder>>
    /\ eglCalled' = FALSE

\* --------------------------------------------------------- createClientImage
\* Reads m_contexts; m_lock is not taken.  image: eglCreateImageKHR's result.
createClientImage(t, context, image) ==
    /\ pc[t] = "idle"
    /\ last' = IF context = 0
               THEN DoneAt("createClientImage", t, "no context", image, lockHolder = t)
               ELSE IF context \notin m_contexts
               THEN DoneAt("createClientImage", t, "bad handle", 0, lockHolder = t)
               ELSE DoneAt("createClientImage", t, "ok", image, lockHolder = t)
    /\ UNCHANGED <<tableVars, ownerVars, recordVars, backendVars, m_nativeWindows,
                   lockHolder, pc>>
    /\ eglCalled' = FALSE

\* -------------------------------------------------------------------- system
Next ==
    \E t \in Threads :
        \/ \E created \in BOOLEAN : createColorBuffer(t, created)
        \/ \E config, created \in BOOLEAN, p_share \in HandleArgs :
               createRenderContext(t, config, p_share, created)
        \/ \E config, created \in BOOLEAN : createWindowSurface(t, config, created)
        \/ drainRenderContext(t)
        \/ drainWindowSurface(t)
        \/ \E h \in HandleArgs : DestroyRenderContext(t, h)
        \/ \E h \in HandleArgs : DestroyWindowSurface(t, h)
        \/ \E h \in HandleArgs : openColorBuffer(t, h)
        \/ \E h \in HandleArgs : closeColorBuffer(t, h)
        \/ \E s, c \in HandleArgs : setWindowSurfaceColorBuffer(t, s, c)
        \/ \E c, d, r \in HandleArgs, ok \in BOOLEAN : bindContext(t, c, d, r, ok)
        \/ \E h \in HandleArgs, ok \in BOOLEAN : readColorBuffer_begin(t, h, ok)
        \/ \E ok \in BOOLEAN : readColorBuffer_end(t, ok)
        \/ \E nw \in NativeWindowIds, surface, ok \in BOOLEAN :
               createNativeWindow_begin(t, nw, surface, ok)
        \/ \E nw \in NativeWindowIds, ok \in BOOLEAN : createNativeWindow_end(t, nw, ok)
        \/ \E nw \in NativeWindowIds : destroyNativeWindow_find(t, nw)
        \/ \E nw \in NativeWindowIds, ok \in BOOLEAN : destroyNativeWindow_body(t, nw, ok)
        \/ \E nw \in NativeWindowIds, ok \in BOOLEAN : draw_begin(t, nw, ok)
        \/ \E ok \in BOOLEAN : draw_end(t, ok)
        \/ draw_lock(t)
        \/ \E context \in HandleArgs, image \in {0, 1} : createClientImage(t, context, image)

Spec == Init /\ [][Next]_vars

\* The thread that issues the operations of the single-threaded
\* specifications below.
OneThread == {1}

\* The registry operations, issued by one thread.  The tables, the
\* refcounts and the handle counter do not depend on which thread calls
\* (only the ownership sets do), and none of these operations reads the
\* binding records, the backend binding or the snapshot.
NextRegistry ==
    \E t \in OneThread :
        \/ \E created \in BOOLEAN : createColorBuffer(t, created)
        \/ \E config, created \in BOOLEAN, p_share \in HandleArgs :
               createRenderContext(t, config, p_share, created)
        \/ \E config, created \in BOOLEAN : createWindowSurface(t, config, created)
        \/ drainRenderContext(t)
        \/ drainWindowSurface(t)
        \/ \E h \in HandleArgs : DestroyRenderContext(t, h)
        \/ \E h \in HandleArgs : DestroyWindowSurface(t, h)
        \/ \E h \in HandleArgs : openColorBuffer(t, h)
        \/ \E h \in HandleArgs : closeColorBuffer(t, h)
        \/ \E s, c \in HandleArgs : setWindowSurfaceColorBuffer(t, s, c)

SpecRegistry == Init /\ [][NextRegistry]_vars

\* The operations that allocate handles and the ones that free them one at
\* a time, issued by one thread.
NextAlloc ==
    \E t \in OneThread :
        \/ \E created \in BOOLEAN : createColorBuffer(t, created)
        \/ \E config, created \in BOOLEAN, p_share \in HandleArgs :
               createRenderContext(t, config, p_share, created)
        \/ \E config, created \in BOOLEAN : createWindowSurface(t, config, created)
        \/ \E h \in HandleArgs : DestroyRenderContext(t, h)
        \/ \E h \in HandleArgs : DestroyWindowSurface(t, h)
        \/ \E h \in HandleArgs : closeColorBuffer(t, h)

SpecAlloc == Init /\ [][NextAlloc]_vars

\* Color buffers created, opened and closed by every thread, with no
\* surface to attach them to.
NextOpenClose ==
    \E t \in Threads :
        \/ \E created \in BOOLEAN : createColorBuffer(t, created)
        \/ \E h \in HandleArgs : openColorBuffer(t, h)
        \/ \E h \in HandleArgs : closeColorBuffer(t, h)

SpecOpenClose == Init /\ [][NextOpenClose]_vars

\* Color buffers and the surfaces they are attached to, issued by one
\* thread: the creation of a color-buffer entry and every way it is erased
\* (close, destroy of its surface, drain).
NextBuffers ==
    \E t \in OneThread :
        \/ \E created \in BOOLEAN : createColorBuffer(t, created)
        \/ \E config, created \in BOOLEAN : createWindowSurface(t, config, created)
        \/ \E s, c \in HandleArgs : setWindowSurfaceColorBuffer(t, s, c)
        \/ \E h \in HandleArgs : closeColorBuffer(t, h)
        \/ \E h \in HandleArgs : DestroyWindowSurface(t, h)
        \/ drainWindowSurface(t)

SpecBuffers == Init /\ [][NextBuffers]_vars

\* Every operation that writes a refcount, issued by one thread: the
\* creation of a color buffer, open, close, and the drain of the surfaces a
\* buffer is attached to.  The backend creates every object asked for,
\* open, close and attach are called with handles of the tables, and a
\* buffer is opened again only after its open has been closed.
NextRefcount ==
    \E t \in OneThread :
        \/ createColorBuffer(t, TRUE)
        \/ createWindowSurface(t, TRUE, TRUE)
        \/ \E s \in DOMAIN m_windows, c \in DOMAIN m_colorbuffers :
               setWindowSurfaceColorBuffer(t, s, c)
        \/ \E h \in {b \in DOMAIN m_colorbuffers : opens[b] = 0} : openColorBuffer(t, h)
        \/ \E h \in DOMAIN m_colorbuffers : closeColorBuffer(t, h)
        \/ drainWindowSurface(t)

SpecRefcount == Init /\ [][NextRefcount]_vars

\* The operations that can report failure (the three creates, open and
\* attach), issued by one thread; open is called with the handles that are
\* not in the color-buffer table, the calls that fail.
NextFailures ==
    \E t \in OneThread :
        \/ \E created \in BOOLEAN : createColorBuffer(t, created)
        \/ \E config, created \in BOOLEAN, p_share \in HandleArgs :
               createRenderContext(t, config, p_share, created)
        \/ \E config, created \in BOOLEAN : createWindowSurface(t, config, created)
        \/ \E h \in HandleArgs \ DOMAIN m_colorbuffers : openColorBuffer(t, h)
        \/ \E s, c \in HandleArgs : setWindowSurfaceColorBuffer(t, s, c)

SpecFailures == Init /\ [][NextFailures]_vars

\* The three creates, issued by every thread, and the two drains, which
\* free the handles of the calling thread for later creates.
NextCreate ==
    \E t \in Threads :
        \/ \E created \in BOOLEAN : createColorBuffer(t, created)
        \/ \E config, created \in BOOLEAN, p_share \in HandleArgs :
               createRenderContext(t, config, p_share, created)
        \/ \E config, created \in BOOLEAN : createWindowSurface(t, config, created)
        \/ drainRenderContext(t)
        \/ drainWindowSurface(t)

SpecCreate == Init /\ [][NextCreate]_vars

\* Contexts and surfaces created, destroyed and drained by every thread:
\* the operations that read or write the ownership sets.
NextOwnership ==
    \E t \in Threads :
        \/ \E config, created \in BOOLEAN, p_share \in HandleArgs :
               createRenderContext(t, config, p_share, created)
        \/ \E config, created \in BOOLEAN : createWindowSurface(t, config, created)
        \/ drainRenderContext(t)
        \/ drainWindowSurface(t)
        \/ \E h \in HandleArgs : DestroyRenderContext(t, h)
        \/ \E h \in HandleArgs : DestroyWindowSurface(t, h)

SpecOwnership == Init /\ [][NextOwnership]_vars

\* bindContext by every thread, on contexts and surfaces created by one.
NextBind ==
    \/ \E t \in OneThread :
        \/ \E config, created \in BOOLEAN, p_share \in HandleArgs :
               createRenderContext(t, config, p_share, created)
        \/ \E config, created \in BOOLEAN : createWindowSurface(t, config, created)
    \/ \E t \in Threads :
        \E c, d, r \in HandleArgs, ok \in BOOLEAN : bindContext(t, c, d, r, ok)

SpecBind == Init /\ [][NextBind]_vars

\* The thread that issues the operations which take m_lock, and the thread
\* that composes the frame with draw, which does not take it.
CallerThreads == {1}

DrawThreads == {2}

\* The operations that change the backend binding and the snapshot, and
\* createClientImage: bindContext, readColorBuffer and the creation and
\* destruction of native windows by the calling thread, draw by the
\* drawing thread.
NextInternal ==
    \/ \E t \in CallerThreads :
        \/ \E created \in BOOLEAN : createColorBuffer(t, created)
        \/ \E config, created \in BOOLEAN, p_share \in HandleArgs :
               createRenderContext(t, config, p_share, created)
        \/ \E config, created \in BOOLEAN : createWindowSurface(t, config, created)
        \/ \E c, d, r \in HandleArgs, ok \in BOOLEAN : bindContext(t, c, d, r, ok)
        \/ \E h \in HandleArgs, ok \in BOOLEAN : readColorBuffer_begin(t, h, ok)
        \/ \E ok \in BOOLEAN : readColorBuffer_end(t, ok)
        \/ \E context \in HandleArgs, image \in {0, 1} : createClientImage(t, context, image)
        \/ \E nw \in NativeWindowIds, surface, ok \in BOOLEAN :
               createNativeWindow_begin(t, nw, surface, ok)
        \/ \E nw \in NativeWindowIds, ok \in BOOLEAN : createNativeWindow_end(t, nw, ok)
        \/ \E nw \in NativeWindowIds : destroyNativeWindow_find(t, nw)
        \/ \E nw \in NativeWindowIds, ok \in BOOLEAN : destroyNativeWindow_body(t, nw, ok)
    \/ \E t \in DrawThreads :
        \/ \E nw \in NativeWindowIds, ok \in BOOLEAN : draw_begin(t, nw, ok)
        \/ \E ok \in BOOLEAN : draw_end(t, ok)
        \/ draw_lock(t)

SpecInternal == Init /\ [][NextInternal]_vars

\* One thread that binds its own contexts and surfaces and creates and
\* destroys native windows: internal binds with nothing running beside them.
NextNativeWindow ==
    \E t \in OneThread :
        \/ \E config, created \in BOOLEAN, p_share \in HandleArgs :
               createRenderContext(t, config, p_share, created)
        \/ \E config, created \in BOOLEAN : createWindowSurface(t, config, created)
        \/ \E c, d, r \in HandleArgs, ok \in BOOLEAN : bindContext(t, c, d, r, ok)
        \/ \E nw \in NativeWindowIds, surface, ok \in BOOLEAN :
               createNativeWindow_begin(t, nw, surface, ok)
        \/ \E nw \in NativeWindowIds, ok \in BOOLEAN : createNativeWindow_end(t, nw, ok)
        \/ \E nw \in NativeWindowIds : destroyNativeWindow_find(t, nw)
        \/ \E nw \in NativeWindowIds, ok \in BOOLEAN : destroyNativeWindow_body(t, nw, ok)

SpecNativeWindow == Init /\ [][NextNativeWindow]_vars

\* bindContext and createNativeWindow by every thread, on a context and a
\* surface created by one: the operations, all under m_lock, that make a
\* binding current on the calling thread.
NextSlot ==
    \/ \E t \in OneThread :
        \/ \E config, created \in BOOLEAN, p_share \in HandleArgs :
               createRenderContext(t, config, p_share, created)
        \/ \E config, created \in BOOLEAN : createWindowSurface(t, config, created)
    \/ \E t \in Threads :
        \/ \E c, d, r \in HandleArgs, ok \in BOOLEAN : bindContext(t, c, d, r, ok)
        \/ \E nw \in NativeWindowIds, surface, ok \in BOOLEAN :
               createNativeWindow_begin(t, nw, surface, ok)
        \/ \E nw \in NativeWindowIds, ok \in BOOLEAN : createNativeWindow_end(t, nw, ok)

SpecSlot == Init /\ [][NextSlot]_vars

\* A context and a surface created and bound with bindContext by one
\* thread, and destroyed or drained by any thread: the removal of objects
\* that are, or were, current on a thread.  The backend creates and binds
\* what it is asked to, and a bind names one surface for draw and read.
NextRecords ==
    \/ \E t \in OneThread :
        \/ createRenderContext(t, TRUE, 0, TRUE)
        \/ createWindowSurface(t, TRUE, TRUE)
        \/ \E c, d \in HandleArgs : bindContext(t, c, d, d, TRUE)
    \/ \E t \in Threads :
        \/ drainRenderContext(t)
        \/ drainWindowSurface(t)
        \/ \E h \in HandleArgs : DestroyRenderContext(t, h)
        \/ \E h \in HandleArgs : DestroyWindowSurface(t, h)

SpecRecords == Init /\ [][NextRecords]_vars

\* The operations that take m_lock by hand (createNativeWindow,
\* destroyNativeWindow, draw) and one pair that takes it through AutoLock
\* (createRenderContext, DestroyRenderContext), issued by every thread.
NextLock ==
    \E t \in Threads :
        \/ \E config, created \in BOOLEAN, p_share \in HandleArgs :
               createRenderContext(t, config, p_share, created)
        \/ \E h \in HandleArgs : DestroyRenderContext(t, h)
        \/ \E nw \in NativeWindowIds, surface, ok \in BOOLEAN :
               createNativeWindow_begin(t, nw, surface, ok)
        \/ \E nw \in NativeWindowIds, ok \in BOOLEAN : createNativeWindow_end(t, nw, ok)
        \/ \E nw \in NativeWindowIds : destroyNativeWindow_find(t, nw)
        \/ \E nw \in NativeWindowIds, ok \in BOOLEAN : destroyNativeWindow_body(t, nw, ok)
        \/ \E nw \in NativeWindowIds, ok \in BOOLEAN : draw_begin(t, nw, ok)
        \/ \E ok \in BOOLEAN : draw_end(t, ok)
        \/ draw_lock(t)

\* Fair scheduling: a thread inside an operation keeps running (weak
\* fairness of the steps that wait for nothing), and a thread blocked in
\* m_lock.lock() gets the lock if it is free again and again (strong
\* fairness of the steps that start with lock()).  Nothing obliges a thread
\* to start a new operation.
FairScheduling ==
    \A t \in Threads :
        /\ WF_vars(\E nw \in NativeWindowIds, ok \in BOOLEAN : createNativeWindow_end(t, nw, ok))
        /\ WF_vars(\E ok \in BOOLEAN : draw_end(t, ok))
        /\ SF_vars(\E nw \in NativeWindowIds, ok \in BOOLEAN : destroyNativeWindow_body(t, nw, ok))
        /\ SF_vars(draw_lock(t))

SpecLock == Init /\ [][NextLock]_vars /\ FairScheduling

\* ------------------------------------------------------------ properties
\* The number of surfaces whose recorded attached buffer handle is b.
Attached(b) == Cardinality({s \in DOMAIN m_windows : m_windows[s] = b})

\* C1: in every reachable state the refcount of every color-buffer entry is
\* 1 for its creation, plus the number of surfaces whose attached buffer
\* handle it is, plus the number of opens not yet matched by a close.
C1_RefcountAccounting ==
    \A b \in DOMAIN m_colorbuffers :
        m_colorbuffers[b] = 1 + Attached(b) + opens[b]

\* C2: DestroyWindowSurface on a surface with a live attached color buffer
\* decrements that buffer's refcount exactly once, erases the buffer entry
\* if and only if the decrement reaches zero, and removes the surface.
C2_DestroySurfaceReleasesBuffer ==
    [][\A t \in Threads, s \in Handles :
          ( /\ DestroyWindowSurface(t, s)
            /\ s \in DOMAIN m_windows
            /\ m_windows[s] \in DOMAIN m_colorbuffers )
          => LET b == m_windows[s] IN
             /\ s \notin DOMAIN m_windows'
             /\ IF m_colorbuffers[b] = 1
                THEN b \notin DOMAIN m_colorbuffers'
                ELSE /\ b \in DOMAIN m_colorbuffers'
                     /\ m_colorbuffers'[b] = m_colorbuffers[b] - 1
      ]_vars

\* C3: no handle is a key of more than one of the color-buffer, context and
\* surface tables, also after the handle counter has wrapped.
C3_HandlesUniqueAcrossTables ==
    /\ DOMAIN m_colorbuffers \cap m_contexts = {}
    /\ DOMAIN m_colorbuffers \cap DOMAIN m_windows = {}
    /\ m_contexts \cap DOMAIN m_windows = {}

\* A create operation that got a handle from genHandle and returned it.
CreateReturns ==
    /\ genHandle # 0
    /\ \E t \in Threads :
          \/ createColorBuffer(t, TRUE)
          \/ \E p_share \in HandleArgs : createRenderContext(t, TRUE, p_share, TRUE)
          \/ createWindowSurface(t, TRUE, TRUE)
    /\ last'.exit = "ok"

\* C4: every handle a create operation returns is the allocator's, is not
\* zero and is no key of the context table or of the surface table at the
\* moment of the allocation.
C4_AllocatorAvoidsLiveHandles ==
    [][CreateReturns =>
          /\ last'.ret # 0
          /\ last'.ret = s_nextHandle'
          /\ last'.ret \notin m_contexts
          /\ last'.ret \notin DOMAIN m_windows
      ]_vars

\* C4 witness: a context was created under handle 1 while handle 2 is a
\* live surface, so the counter had wrapped past 0 and live handles were
\* in the tables at the allocation.
C4_Witness ==
    /\ last.op = "createRenderContext"
    /\ last.exit = "ok"
    /\ last.ret = 1
    /\ 2 \in DOMAIN m_windows

\* C5: after DestroyRenderContext(h) or DestroyWindowSurface(h), called by
\* any thread, no thread's ownership set contains h.
C5_DestroyClearsEveryOwner ==
    [][\A t \in Threads, h \in Handles :
          /\ DestroyRenderContext(t, h) => \A u \in Threads : h \notin m_contextSet'[u]
          /\ DestroyWindowSurface(t, h) => \A u \in Threads : h \notin m_windowSet'[u]
      ]_vars

\* C6: a drain by thread t removes from the tables exactly the live entries
\* that t created, leaves every entry created by another thread in its
\* table unchanged, and leaves t's ownership set empty.
C6_DrainRemovesExactlyOwn ==
    [][\A t \in Threads :
          /\ drainRenderContext(t) =>
                /\ m_contexts' = {h \in m_contexts : creator[h] # t}
                /\ m_contextSet'[t] = {}
          /\ drainWindowSurface(t) =>
                /\ DOMAIN m_windows' = {h \in DOMAIN m_windows : creator[h] # t}
                /\ \A h \in DOMAIN m_windows' : m_windows'[h] = m_windows[h]
                /\ m_windowSet'[t] = {}
      ]_vars

\* The last step read or wrote one of the three handle tables, the backend
\* binding or the snapshot: every exit other than the two that only look
\* at the native-window table or at no table at all.
TouchesSharedState ==
    /\ last.op # "init"
    /\ last.exit \notin {"not found", "no context"}

\* C7: every step that mutates the backend binding or the snapshot, or
\* reads or writes one of the three handle tables, is taken while the
\* calling thread holds m_lock, draw on a native window, destroyNativeWindow
\* and createClientImage included.
C7_SharedStateOnlyUnderLock == TouchesSharedState => last.held

\* The backend binding and the snapshot after a successful unbind_locked by
\* thread t: the binding from before t's internal bind, and no snapshot.
Restored(t) ==
    /\ eglCurrent'[t] = prior[t]
    /\ m_prevContext' = EGL_NO_CONTEXT
    /\ m_prevReadSurf' = EGL_NO_SURFACE
    /\ m_prevDrawSurf' = EGL_NO_SURFACE

\* C8: an internal bind followed by its matching unbind_locked, both
\* succeeding at the backend, leaves the thread's backend binding equal to
\* what it was immediately before the internal bind, and the snapshot
\* cleared.
C8_InternalBindRestoresBinding ==
    [][\A t \in Threads :
          ( \/ readColorBuffer_end(t, TRUE)
            \/ \E nw \in NativeWindowIds : createNativeWindow_end(t, nw, TRUE)
            \/ draw_end(t, TRUE) )
          => Restored(t)
      ]_vars

\* Everything but the history of the last step.
stateVars == <<s_nextHandle, m_colorbuffers, m_contexts, m_windows, m_nativeWindows,
               m_contextSet, m_windowSet, currContext, currDrawSurf, currReadSurf,
               eglCurrent, m_prevContext, m_prevReadSurf, m_prevDrawSurf,
               lockHolder, pc, opens, creator, prior>>

\* C9: bindContext with a non-zero argument and a context, draw surface or
\* read surface that is in no table returns false, makes no eglMakeCurrent
\* call, and changes neither the calling thread's record nor anything else.
C9_BadHandleBindHasNoEffect ==
    [][\A t \in Threads, c, d, r \in HandleArgs :
          ( /\ IsBind(c, d, r)
            /\ ~Resolves(c, d, r)
            /\ last'.t = t
            /\ \E ok \in BOOLEAN : bindContext(t, c, d, r, ok) )
          => /\ last'.ret = 0
             /\ ~eglCalled'
             /\ UNCHANGED stateVars
      ]_vars

\* C9 witness: a bindContext that failed on a bad handle, by a thread whose
\* record holds an earlier successful bind.
C9_Witness ==
    /\ last.op = "bindContext"
    /\ last.exit = "bad handle"
    /\ currContext[last.t] # 0
    /\ currDrawSurf[last.t] # 0

C11_UnbindAlwaysSucceeds ==
    [][\A t \in Threads, ok \in BOOLEAN :
          bindContext(t, 0, 0, 0, ok)
          => /\ last'.ret = 1
             /\ currContext'[t] = 0
             /\ currDrawSurf'[t] = 0
             /\ currReadSurf'[t] = 0
      ]_vars

\* C11 amended: bindContext(0, 0, 0) looks nothing up and always calls
\* eglMakeCurrent with no context and no surfaces; when that call succeeds
\* it returns true, the calling thread's record is empty and nothing is
\* current on the thread; when the call fails it returns false and no state
\* changes.
C11_UnbindFollowsBackend ==
    [][\A t \in Threads, ok \in BOOLEAN :
          bindContext(t, 0, 0, 0, ok)
          => /\ eglCalled'
             /\ IF ok
                THEN /\ last'.ret = 1
                     /\ currContext'[t] = 0
                     /\ currDrawSurf'[t] = 0
                     /\ currReadSurf'[t] = 0
                     /\ eglCurrent'[t] = NoBinding
                     /\ \A u \in Threads \ {t} :
                           /\ currContext'[u] = currContext[u]
                           /\ currDrawSurf'[u] = currDrawSurf[u]
                           /\ currReadSurf'[u] = currReadSurf[u]
                           /\ eglCurrent'[u] = eglCurrent[u]
                ELSE /\ last'.ret = 0
                     /\ UNCHANGED stateVars
      ]_vars

\* C11 witness: a successful bindContext that left its thread with an empty
\* record while another thread still holds a binding: an unbind.
C11_Witness ==
    /\ last.op = "bindContext"
    /\ last.exit = "ok"
    /\ currContext[last.t] = 0
    /\ currDrawSurf[last.t] = 0
    /\ currReadSurf[last.t] = 0
    /\ \E u \in Threads \ {last.t} : currContext[u] # 0

\* C12: openColorBuffer on a live handle adds one to its refcount and a
\* closeColorBuffer right after it gives the table of before the open; for a
\* color buffer that was never attached, closeColorBuffer erases the entry
\* if and only if every open since its creation has already been matched by
\* a close (it is the (N+1)-th close after N opens), and otherwise takes
\* one from the refcount.
C12_OpenCloseBalance ==
    [][\A t \in Threads, b \in Handles :
          b \in DOMAIN m_colorbuffers
          => /\ openColorBuffer(t, b)
                => /\ m_colorbuffers'[b] = m_colorbuffers[b] + 1
                   /\ DecRef(m_colorbuffers', b) = m_colorbuffers
             /\ closeColorBuffer(t, b)
                => /\ b \notin DOMAIN m_colorbuffers' <=> opens[b] = 0
                   /\ b \in DOMAIN m_colorbuffers'
                      => m_colorbuffers'[b] = m_colorbuffers[b] - 1
                   /\ \A o \in DOMAIN m_colorbuffers \ {b} :
                         /\ o \in DOMAIN m_colorbuffers'
                         /\ m_colorbuffers'[o] = m_colorbuffers[o]
      ]_vars

\* C12 witness: a closeColorBuffer that took a reference and left its buffer,
\* the only one in the table, with the refcount of its creation: the first
\* close after one open, which did not erase the entry.
C12_Witness ==
    /\ last.op = "closeColorBuffer"
    /\ last.exit = "ok"
    /\ \E b \in Handles :
          /\ DOMAIN m_colorbuffers = {b}
          /\ m_colorbuffers[b] = 1
          /\ opens[b] = 0

\* C13: closeColorBuffer on a handle that is not in the color-buffer table
\* returns without an error and changes no table, refcount, ownership set,
\* binding record or anything else.
C13_CloseUnknownIsNoOp ==
    [][\A t \in Threads, h \in HandleArgs :
          ( /\ h \notin DOMAIN m_colorbuffers
            /\ closeColorBuffer(t, h) )
          => /\ last'.exit = "unknown handle"
             /\ last'.ret = 0
             /\ ~eglCalled'
             /\ UNCHANGED stateVars
      ]_vars

\* C13 witness: a closeColorBuffer found no entry for its handle while a
\* surface still records an attached buffer that is gone from the table and
\* another buffer is live: the handle had been erased before.
C13_Witness ==
    /\ last.op = "closeColorBuffer"
    /\ last.exit = "unknown handle"
    /\ m_colorbuffers # EmptyMap
    /\ \E s \in DOMAIN m_windows :
          m_windows[s] # 0 /\ m_windows[s] \notin DOMAIN m_colorbuffers

\* The failing cases of the registry operations: an unknown handle passed
\* to open or attach, a configuration or share context that is not found,
\* an object the backend did not construct.
OpenFails(h) == h \notin DOMAIN m_colorbuffers

AttachFails(s, c) == s \notin DOMAIN m_windows \/ c \notin DOMAIN m_colorbuffers

CreateContextFails(config, p_share, created) ==
    ~config \/ (p_share # 0 /\ p_share \notin m_contexts) \/ ~created

\* A step of a registry operation by thread t in one of its failing cases.
\* Each operation records its own name and its thread in last, so the test
\* of last'.op is implied by the action it precedes, and the thread of a
\* step is last'.t; the test comes first to spare evaluating the action on
\* the steps of the other operations.
FailingStep(t) ==
    \/ /\ last'.op = "openColorBuffer"
       /\ \E h \in HandleArgs : OpenFails(h) /\ openColorBuffer(t, h)
    \/ /\ last'.op = "setWindowSurfaceColorBuffer"
       /\ \E s, c \in HandleArgs :
             AttachFails(s, c) /\ setWindowSurfaceColorBuffer(t, s, c)
    \/ /\ last'.op = "createRenderContext"
       /\ \E config, created \in BOOLEAN, p_share \in HandleArgs :
             /\ CreateContextFails(config, p_share, created)
             /\ createRenderContext(t, config, p_share, created)
    \/ /\ last'.op = "createWindowSurface"
       /\ \E config, created \in BOOLEAN :
             (~config \/ ~created) /\ createWindowSurface(t, config, created)
    \/ /\ last'.op = "createColorBuffer"
       /\ createColorBuffer(t, FALSE)

SnapshotUnset ==
    /\ m_prevContext = EGL_NO_CONTEXT
    /\ m_prevReadSurf = EGL_NO_SURFACE
    /\ m_prevDrawSurf = EGL_NO_SURFACE

\* C15: after an internal bind that the backend refused, the snapshot is
\* unset and an unbind_locked made afterwards would leave the thread's
\* backend binding as it is; and after a release that succeeded, a second
\* unbind_locked would leave the binding as the first one left it.
C15_ReleaseAfterFailedBindIsSafe ==
    [][\A t \in Threads, nw \in NativeWindowIds :
          /\ createNativeWindow_begin(t, nw, TRUE, FALSE)
             => SnapshotUnset' /\ UnbindTarget' = eglCurrent'[t]
          /\ createNativeWindow_end(t, nw, TRUE)
             => UnbindTarget' = eglCurrent'[t]
      ]_vars

\* C16: under fair scheduling a thread that holds the lock eventually
\* releases it, and a thread that waits in m_lock.lock() eventually gets
\* the lock and finishes its operation.
C16_LockEventuallyReleased ==
    \A t \in Threads :
        /\ (lockHolder = t) ~> (lockHolder # t)
        /\ (pc[t] \in {"destroyNativeWindow_lock", "draw_lock"}) ~> (pc[t] = "idle")

\* The handles that some entry refers to: the keys of the three tables,
\* the members of the threads' ownership sets and the attached-buffer
\* handles recorded in the surfaces.
Referenced ==
    m_contexts \cup DOMAIN m_windows \cup DOMAIN m_colorbuffers
    \cup UNION {m_contextSet[t] \cup m_windowSet[t] : t \in Threads}
    \cup ({m_windows[s] : s \in DOMAIN m_windows} \ {0})

\* C17: a create operation never returns a handle that, at the moment of
\* the allocation, is a key of a table, a member of a thread's ownership
\* set or the attached-buffer handle recorded in a surface.
C17_NoReuseWhileReferenced ==
    [][CreateReturns => last'.ret \notin Referenced]_vars

\* 1 when the step is a successful create of the operation named op, else 0.
Created(op) == IF CreateReturns /\ last'.op = op THEN 1 ELSE 0

\* The keys before and after a step balance: as many keys after it as
\* before it, plus the creation made by the step, minus the keys it removed.
Balanced(before, after, created) ==
    Cardinality(after) = Cardinality(before) + created - Cardinality(before \ after)

\* C18: on every step each table's size grows by the successful creation
\* into it, if the step is one, and shrinks by the entries the step removes
\* from it; so that its size is always its creations minus its removals.
C18_TableSizeAccounting ==
    [][/\ Balanced(DOMAIN m_colorbuffers, DOMAIN m_colorbuffers',
                   Created("createColorBuffer"))
       /\ Balanced(m_contexts, m_contexts', Created("createRenderContext"))
       /\ Balanced(DOMAIN m_windows, DOMAIN m_windows', Created("createWindowSurface"))
      ]_vars

\* C19: a successful createRenderContext (createWindowSurface) by thread t
\* adds the returned handle to the context (surface) table and to t's
\* context (surface) ownership set and changes no other ownership set; the
\* new surface records the attached handle 0; a successful
\* createColorBuffer leaves its entry with refcount 1 and changes no
\* ownership set.
C19_CreateRegistersWithCaller ==
    [][CreateReturns
          => LET t == last'.t
                 h == last'.ret
             IN
             /\ last'.op = "createRenderContext"
                => /\ m_contexts' = m_contexts \cup {h}
                   /\ m_contextSet' = [m_contextSet EXCEPT ![t] = @ \cup {h}]
                   /\ UNCHANGED <<m_windowSet, m_windows, m_colorbuffers>>
             /\ last'.op = "createWindowSurface"
                => /\ DOMAIN m_windows' = DOMAIN m_windows \cup {h}
                   /\ m_windows'[h] = 0
                   /\ \A s \in DOMAIN m_windows : m_windows'[s] = m_windows[s]
                   /\ m_windowSet' = [m_windowSet EXCEPT ![t] = @ \cup {h}]
                   /\ UNCHANGED <<m_contextSet, m_contexts, m_colorbuffers>>
             /\ last'.op = "createColorBuffer"
                => /\ h \in DOMAIN m_colorbuffers'
                   /\ m_colorbuffers'[h] = 1
                   /\ UNCHANGED <<m_contextSet, m_windowSet, m_contexts, m_windows>>
      ]_vars

\* C19 witness: thread 2 has just created a surface, which has no attached
\* buffer and is in its surface ownership set, while thread 1 owns a
\* context and a surface of its own.
C19_Witness ==
    /\ last.op = "createWindowSurface"
    /\ last.exit = "ok"
    /\ last.t = 2
    /\ m_windows[last.ret] = 0
    /\ last.ret \in m_windowSet[2]
    /\ last.ret \notin m_windowSet[1]
    /\ m_windowSet[1] \cup m_contextSet[1] # {}

\* C20: a drain leaves the calling thread's ownership set empty, a drain by
\* a thread whose set is empty changes nothing, and a drain that directly
\* follows the same drain by the same thread changes nothing.
C20_DrainIdempotent ==
    [][\A t \in Threads :
          /\ (last'.op = "drainRenderContext" /\ drainRenderContext(t))
             => /\ m_contextSet'[t] = {}
                /\ m_contextSet[t] = {} => UNCHANGED stateVars
                /\ (last.op = "drainRenderContext" /\ last.t = t)
                   => UNCHANGED stateVars
          /\ (last'.op = "drainWindowSurface" /\ drainWindowSurface(t))
             => /\ m_windowSet'[t] = {}
                /\ m_windowSet[t] = {} => UNCHANGED stateVars
                /\ (last.op = "drainWindowSurface" /\ last.t = t)
                   => UNCHANGED stateVars
      ]_vars

\* C20 witness: thread 1 has just drained its contexts although it never
\* owned one: the only handle ever allocated is a context that thread 2
\* created, and it is still in the table.
C20_Witness ==
    /\ last.op = "drainRenderContext"
    /\ last.t = 1
    /\ s_nextHandle = 1
    /\ m_contexts = {1}
    /\ m_contextSet[2] = {1}
    /\ m_contextSet[1] = {}

\* C21: DestroyRenderContext and DestroyWindowSurface on a handle that is
\* not in the table, called by any thread, change no table, refcount,
\* ownership set, binding record or other state; so that a second destroy
\* of a handle leaves the state of the first.
C21_DestroyAbsentIsNoOp ==
    [][\A t \in Threads, h \in HandleArgs :
          /\ (h \notin m_contexts /\ DestroyRenderContext(t, h))
             => UNCHANGED stateVars
          /\ (h \notin DOMAIN m_windows /\ DestroyWindowSurface(t, h))
             => UNCHANGED stateVars
      ]_vars

\* The record of thread t as a binding.
Record(t) == Binding(currContext[t], currDrawSurf[t], currReadSurf[t])

InternalBindOpen(u) == pc[u] \in {"readColorBuffer", "createNativeWindow", "draw"}

\* C23: while a thread is between a successful bind_locked or
\* bindWindow_locked and the matching unbind_locked, no thread starts another
\* internal bind and no bindContext makes a binding current.
C23_InternalBindsNotInterleaved ==
    [][(\E u \in Threads : InternalBindOpen(u))
          => ~ \E t \in Threads :
                 \/ pc[t] = "idle" /\ InternalBindOpen(t)'
                 \/ /\ last'.op = "bindContext"
                    /\ last'.exit = "ok"
                    /\ \E c, d, r \in HandleArgs : bindContext(t, c, d, r, TRUE)
      ]_vars

\* C24: for a surface s in m_windows that is the only member of thread t's
\* m_windowSet, DestroyWindowSurface(s) by t leaves the surface table and
\* the color-buffer table, refcounts included, that drainWindowSurface by t
\* leaves from the same state.
C24_DrainEqualsDestroy ==
    [][\A t \in Threads, s \in Handles :
          ( /\ s \in DOMAIN m_windows
            /\ m_windowSet[t] = {s}
            /\ DestroyWindowSurface(t, s) )
          => LET st == DrainLoop([w |-> m_windows, c |-> m_colorbuffers], {s}) IN
             /\ m_windows' = st.w
             /\ m_colorbuffers' = st.c
      ]_vars

\* C25: a setWindowSurfaceColorBuffer(s, b) that succeeds sets the handle
\* recorded for surface s to b, leaves every other surface as it was, and
\* leaves the color-buffer table with all its refcounts unchanged: b is not
\* incremented, and the buffer s had before is neither decremented nor
\* erased.
C25_AttachChangesNoRefcount ==
    [][\A t \in Threads, s, b \in HandleArgs :
          ( /\ s \in DOMAIN m_windows
            /\ b \in DOMAIN m_colorbuffers
            /\ setWindowSurfaceColorBuffer(t, s, b) )
          => /\ last'.ret = 1
             /\ m_windows' = [m_windows EXCEPT ![s] = b]
             /\ m_colorbuffers' = m_colorbuffers
      ]_vars

\* C25 witness: an attach has succeeded, the buffer it attached has the
\* refcount 1 of its creation, and a second buffer is in the table.
C25_Witness ==
    /\ last.op = "setWindowSurfaceColorBuffer"
    /\ last.exit = "ok"
    /\ \E s \in DOMAIN m_windows :
          /\ m_windows[s] \in DOMAIN m_colorbuffers
          /\ m_colorbuffers[m_windows[s]] = 1
          /\ DOMAIN m_colorbuffers \ {m_windows[s]} # {}

\* C26: every call of genHandle terminates: no create operation is ever
\* left in genHandle's loop, which it enters for good, with m_lock held,
\* when every non-zero handle value is a key of m_contexts or of m_windows.
C26_AllocatorTerminates == \A t \in Threads : pc[t] # "genHandle"

\* C27: every entry of the color-buffer table has a refcount of at least 1;
\* an entry whose refcount would become 0 is erased in the same step.
C27_RefcountAtLeastOne ==
    \A b \in DOMAIN m_colorbuffers : m_colorbuffers[b] >= 1

\* C27 witness: a drain has released the reference of a buffer that was
\* opened once, and the buffer is still in the table, with refcount 1.
C27_Witness ==
    /\ last.op = "drainWindowSurface"
    /\ \E b \in DOMAIN m_colorbuffers : m_colorbuffers[b] = 1 /\ opens[b] = 1

\* C28: m_lock is released only by the thread that holds it, and no
\* operation calls m_lock.unlock() without having acquired the lock itself:
\* a step that takes the lock away from its holder is a step of the holder,
\* and a draw whose bindWindow_locked fails, which calls unlock, holds the
\* lock at that point.
C28_UnlockOnlyByHolder ==
    [][/\ (lockHolder # NoThread /\ lockHolder' # lockHolder) => last'.t = lockHolder
       /\ ( /\ last'.op = "draw"
            /\ last'.exit = "bindWindow_locked failed"
            /\ \E nw \in NativeWindowIds : draw_begin(last'.t, nw, FALSE) )
          => lockHolder = last'.t
      ]_vars

\* C29: DestroyRenderContext, DestroyWindowSurface, drainRenderContext and
\* drainWindowSurface leave every thread's recorded current context, draw
\* surface and read surface and every thread's backend binding unchanged,
\* also when the object removed is currently bound.
C29_RemovalKeepsBindings ==
    [][( /\ last'.op \in {"DestroyRenderContext", "DestroyWindowSurface",
                          "drainRenderContext", "drainWindowSurface"}
         /\ LET t == last'.t IN
            \/ drainRenderContext(t)
            \/ drainWindowSurface(t)
            \/ \E h \in HandleArgs : DestroyRenderContext(t, h)
            \/ \E h \in HandleArgs : DestroyWindowSurface(t, h) )
          => UNCHANGED <<recordVars, eglCurrent>>
      ]_vars

\* C29 witness: after a destroy or a drain a thread's record and backend
\* binding still name a context and a surface that are in no table.
C29_Witness ==
    /\ last.op \in {"DestroyRenderContext", "DestroyWindowSurface",
                     "drainRenderContext", "drainWindowSurface"}
    /\ \E t \in Threads :
          /\ currContext[t] # 0
          /\ currDrawSurf[t] # 0
          /\ eglCurrent[t] = Record(t)
          /\ {currContext[t], currDrawSurf[t]}
                \cap (m_contexts \cup DOMAIN m_windows \cup DOMAIN m_colorbuffers) = {}

====
